---- MODULE Spec2Model ----
(***************************************************************************)
(* DiscordDB: a document store on top of a chat platform.                  *)
(*   collection = text channel, document = message, envelope = JSON body.  *)
(* The model covers DiscordClient (part_001:634-744), DiscordRepository    *)
(* (src/core/DiscordRepository.ts) and the platform state they act on.     *)
(* Every `await` of the code is one step of a caller; the synchronous code *)
(* that follows an await belongs to the step of that await.                *)
(***************************************************************************)
EXTENDS Integers, Sequences, FiniteSets, TLC

\* ------------------------------------------------------------------ bounds
\* The page size of the model. It stands for the 100 of
\* `limit: 100` (DiscordClient.fetchMessages) and `size < 100`
\* (DiscordRepository.findAll), scaled down so that histories of several
\* pages stay small.
PageSize == 2
\* Snowflakes the platform hands out in the scan specification.
MaxMsgs == 5
\* Snowflakes the platform hands out in the CRUD specification.
MaxDocs == 2
\* Channels that can exist in the guild.
MaxChannels == 2
\* Concurrent callers of the repository.
NumCallers == 2

Callers == 1..NumCallers

\* ------------------------------------------------------------- JSON values
\* A JSON value is a scalar or an object; an object is a function from its
\* own keys to JSON values. Payloads are JSON-serializable records (no
\* undefined, no NaN), the values JSON.parse gives back as JSON.stringify
\* took them; a message body, though, may be a text JSON.parse rejects.
Scalar(n) == <<"val", n>>
Obj(f) == <<"obj", f>>
NoProps == [k \in {} |-> Scalar(0)]

\* Own enumerable properties of a value, as object spread `...v` sees them:
\* a number or null contributes no property.
Props(v) == IF v[1] = "obj" THEN v[2] ELSE NoProps

\* Variant: a recursive merge, which keeps the keys of a nested object of a
\* that b's nested object lacks.
SpreadDeep(a, b) ==
  [k \in DOMAIN a \cup DOMAIN b |->
     IF k \in DOMAIN b
       THEN IF k \in DOMAIN a /\ a[k][1] = "obj" /\ b[k][1] = "obj"
              THEN Obj([j \in DOMAIN a[k][2] \cup DOMAIN b[k][2] |->
                          IF j \in DOMAIN b[k][2] THEN b[k][2][j] ELSE a[k][2][j]])
              ELSE b[k]
       ELSE a[k]]
\* { ...a, ...b } on property maps: b's value wins on every key of b.
Spread(a, b) ==
  [k \in DOMAIN a \cup DOMAIN b |-> IF k \in DOMAIN b THEN b[k] ELSE a[k]]

\* Message bodies: the text JSON.stringify produces for a value, or a text
\* that is no JSON at all ('invalid json' of the tests).
Stringify(v) == <<"json", v>>
InvalidJson == <<"text", Scalar(0)>>
\* JSON.parse: throws on a text that is no JSON, else yields the value.
ParseThrows(text) == text[1] # "json"
Parse(text) == text[2]

\* { id: message.id, ...data } of findAll and findById.
MakeDocument(mid, data) == Spread("id" :> Scalar(mid), Props(data))

\* Variant: update merging nested objects recursively.
MergeUpdateDeep(existing, data) == Obj(SpreadDeep(Props(existing), Props(data)))
\* { ...existingData, ...data } of update.
MergeUpdate(existing, data) == Obj(Spread(Props(existing), Props(data)))

\* ---------------------------------------------------------------- payloads
PA == Obj(("a" :> Scalar(1)) @@ ("b" :> Scalar(2)))
PB == Obj("b" :> Scalar(3))
PU == Obj("u" :> Obj(("x" :> Scalar(1)) @@ ("y" :> Scalar(2))))
PUx == Obj("u" :> Obj("x" :> Scalar(9)))
PC == Obj("a" :> Scalar(7))
\* A payload that carries its own `id` field.
PId == Obj(("id" :> Scalar(99)) @@ ("a" :> Scalar(1)))
\* The document a reader returns for message 1 holding PA, used as a payload.
PDoc1 == Obj(MakeDocument(1, PA))
\* A JSON value that is no object.
PNum == Scalar(5)

Payloads == {PA, PU, PId, PNum}
Partials == {PB, PUx}
ScanPayloads == {PA, PId, PNum}
DelPayloads == {PA, PDoc1}
\* Partial payloads on different keys, for updates that run concurrently.
ConcPartials == {PB, PC}
\* Payloads of the inserts that run next to a scan.
ConcPayloads == {PA, PId}
Collections == {"users", "logs"}

\* ------------------------------------------------------------------- state
VARIABLES
  ready,        \* client.isReady()
  guildCached,  \* client.guilds.cache has guildId
  channels,     \* guild.channels.cache: sequence of [name, kind], id = index
  msgs,         \* messages of the platform, ascending by id: [id, ch, content]
  nextId,       \* next snowflake
  call,         \* per caller: the repository call in progress and its locals
  inserted      \* history: id of a message no edit was applied to since the
                \* insert that sent it -> the payload given to that insert

vars == <<ready, guildCached, channels, msgs, nextId, call, inserted>>

NoMsg == [id |-> 0, ch |-> 0, content |-> InvalidJson]
NoRet == <<"none", 0>>
\* The DiscordDB method behind a repository call: its name, its arguments
\* and what its promise settled with; NoFacade for a direct repository call.
FacadeCall(op, coll, id, data) ==
  [op |-> op, coll |-> coll, id |-> id, data |-> data, out |-> NoRet]
NoFacade == FacadeCall("none", "", 0, Scalar(0))
\* `since` is history: the next snowflake of the platform when the method
\* was called; the messages with a smaller id are those sent before the call.
IdleCall ==
  [pc |-> "idle", op |-> "none", coll |-> "", id |-> 0, data |-> Scalar(0),
   chan |-> 0, msg |-> NoMsg, text |-> InvalidJson, results |-> <<>>,
   cursor |-> 0, fetches |-> <<>>, prims |-> <<>>, fault |-> "",
   ret |-> NoRet, facade |-> NoFacade, since |-> 0]

Init ==
  /\ ready = FALSE
  /\ guildCached = FALSE
  /\ channels = <<>>
  /\ msgs = <<>>
  /\ nextId = 1
  /\ call = [p \in Callers |-> IdleCall]
  /\ inserted = [i \in {} |-> Scalar(0)]

\* --------------------------------------------------------------- platform
Min(a, b) == IF a < b THEN a ELSE b
Reverse(s) == [i \in 1..Len(s) |-> s[Len(s) + 1 - i]]
Take(s, n) == SubSeq(s, 1, Min(n, Len(s)))
Ids(s) == [i \in 1..Len(s) |-> s[i].id]
Without(f, x) == [y \in DOMAIN f \ {x} |-> f[y]]

ChannelMsgs(ch) == SelectSeq(msgs, LAMBDA m : m.ch = ch)
HasMsg(ch, mid) == \E i \in 1..Len(msgs) : msgs[i].id = mid /\ msgs[i].ch = ch
MsgOf(mid) == msgs[CHOOSE i \in 1..Len(msgs) : msgs[i].id = mid]

\* channel.messages.fetch({ limit, before }): the newest `limit` messages of
\* the channel that are strictly older than `before`, newest first.
PlatformPage(ch, limit, before) ==
  Take(Reverse(SelectSeq(msgs, LAMBDA m : m.ch = ch /\ (before = 0 \/ m.id < before))),
       limit)

\* Variant: the lookup takes a channel of any kind with the name.
FindChannelAnyKind(name) ==
  LET S == {i \in 1..Len(channels) : channels[i].name = name}
  IN IF S = {} THEN 0 ELSE CHOOSE i \in S : \A j \in S : i <= j
\* guild.channels.cache.find(type === GuildText && name === collection)
TextChannelsNamed(name) ==
  {i \in 1..Len(channels) : channels[i].kind = "text" /\ channels[i].name = name}
FindChannel(name) ==
  LET S == TextChannelsNamed(name)
  IN IF S = {} THEN 0 ELSE CHOOSE i \in S : \A j \in S : i <= j

\* ---------------------------------------------------------------- helpers
\* The primitive of DiscordClient a caller awaits at each position.
PrimOf(pc) ==
  CASE pc = "create" -> "createChannel"
    [] pc = "send" -> "sendMessage"
    [] pc = "fetchPage" -> "fetchMessages"
    [] pc = "fetchOne" -> "fetchMessageById"
    [] pc = "edit" -> "editMessage"
    [] pc = "del" -> "deleteMessage"
    [] pc = "waitReady" -> "once"

\* The caller invokes the primitive of position `pc` and awaits it.
Await(c, pc) == [c EXCEPT !.pc = pc, !.prims = Append(@, PrimOf(pc))]
\* The call settles: it resolves to a value or rejects with an error.
Settle(c, r) == [c EXCEPT !.pc = "done", !.ret = r]
Rejected(e) == <<"error", e>>
Idle(p) == call[p].pc = "idle"
\* The platform call behind primitive `prim` failed.
Fault(c, prim) == [c EXCEPT !.fault = prim]
Invoked(c, prim) == \E i \in 1..Len(c.prims) : c.prims[i] = prim

\* The primitive each repository method calls once the channel is resolved.
AfterResolve(op) ==
  CASE op = "insert" -> "send"
    [] op = "findAll" -> "fetchPage"
    [] OTHER -> "fetchOne"

\* ------------------------------------------------- DiscordClient: channels
\* Variant: resolveCollectionChannel without getGuild's check.
ResolveCollectionChannelNoGuildCheck(c) ==
  IF FindChannel(c.coll) # 0
    THEN Await([c EXCEPT !.chan = FindChannel(c.coll)], AfterResolve(c.op))
    ELSE Await(c, "create")
\* Variant: a method other than insert creates no channel: with no channel
\* for the collection it answers at once as for an empty collection.
ResolveCollectionChannelReadOnly(c) ==
  IF ~guildCached
    THEN Settle(c, Rejected("Guild not found in cache"))
    ELSE IF FindChannel(c.coll) # 0
           THEN Await([c EXCEPT !.chan = FindChannel(c.coll)], AfterResolve(c.op))
           ELSE IF c.op = "insert" THEN Await(c, "create")
           ELSE IF c.op = "findAll" THEN Settle(c, <<"docs", <<>>>>)
           ELSE IF c.op = "findById" THEN Settle(c, <<"null", 0>>)
           ELSE Settle(c, <<"bool", FALSE>>)
\* getGuild and the cache lookup of resolveCollectionChannel run synchronously
\* when a repository method is called; only channel creation is awaited.
ResolveCollectionChannel(c) ==
  IF ~guildCached
    THEN Settle(c, Rejected("Guild not found in cache"))
    ELSE IF FindChannel(c.coll) # 0
           THEN Await([c EXCEPT !.chan = FindChannel(c.coll)], AfterResolve(c.op))
           ELSE Await(c, "create")

\* A repository method is called with its arguments.
Start(p, op, coll, id, data) ==
  /\ Idle(p)
  /\ call' = [call EXCEPT ![p] = ResolveCollectionChannel(
       [IdleCall EXCEPT !.op = op, !.coll = coll, !.id = id, !.data = data,
                        !.since = nextId])]
  /\ UNCHANGED <<ready, guildCached, channels, msgs, nextId, inserted>>

Insert(p, coll, data) == Start(p, "insert", coll, 0, data)
FindAll(p, coll) == Start(p, "findAll", coll, 0, Scalar(0))
FindById(p, coll, id) == Start(p, "findById", coll, id, Scalar(0))
Update(p, coll, id, data) == Start(p, "update", coll, id, data)
Delete(p, coll, id) == Start(p, "delete", coll, id, Scalar(0))

\* guild.channels.create({ name, type: GuildText }) returns: the channel is
\* in the cache, or the platform refused (the guild's channel limit, a
\* missing permission) and the method rejects.
CreateChannel(p) ==
  LET c == call[p] IN
  /\ c.pc = "create"
  /\ \E ok \in BOOLEAN :
       /\ ok => Len(channels) < MaxChannels
       /\ IF ok
            THEN /\ channels' = Append(channels, [name |-> c.coll, kind |-> "text"])
                 /\ call' = [call EXCEPT ![p] =
                      Await([c EXCEPT !.chan = Len(channels) + 1], AfterResolve(c.op))]
            ELSE /\ channels' = channels
                 /\ call' = [call EXCEPT ![p] =
                      Settle(Fault(c, "createChannel"), Rejected("create failed"))]
  /\ UNCHANGED <<ready, guildCached, msgs, nextId, inserted>>

\* ----------------------------------------------- DiscordClient: readiness
\* What a waitUntilReady call resolves to.
Void == <<"void", 0>>
\* Variant: waitUntilReady without the isReady() test.
WaitUntilReadyNoReadyCheck(p) ==
  /\ Idle(p)
  /\ call' = [call EXCEPT ![p] =
       Await([IdleCall EXCEPT !.op = "waitUntilReady"], "waitReady")]
  /\ UNCHANGED <<ready, guildCached, channels, msgs, nextId, inserted>>
\* waitUntilReady is called: it returns at once when the client is ready,
\* else it registers a one-time listener of the ready event and awaits it.
WaitUntilReady(p) ==
  /\ Idle(p)
  /\ call' = [call EXCEPT ![p] =
       LET c == [IdleCall EXCEPT !.op = "waitUntilReady"]
       IN IF ready THEN Settle(c, Void) ELSE Await(c, "waitReady")]
  /\ UNCHANGED <<ready, guildCached, channels, msgs, nextId, inserted>>
\* The promise the listener resolved lets waitUntilReady go on: it returns;
\* DiscordDB.isReady, which awaited it, returns discordClient.isReady().
ReadyResume(p) ==
  /\ call[p].pc = "woken"
  /\ call' = [call EXCEPT ![p] =
       Settle(call[p], IF call[p].op = "isReady" THEN <<"bool", ready>> ELSE Void)]
  /\ UNCHANGED <<ready, guildCached, channels, msgs, nextId, inserted>>

\* Variant: DiscordDB.isReady polls the flag without waiting.
IsReadyNoWait(p) ==
  /\ Idle(p)
  /\ call' = [call EXCEPT ![p] =
       Settle([IdleCall EXCEPT !.op = "isReady"], <<"bool", ready>>)]
  /\ UNCHANGED <<ready, guildCached, channels, msgs, nextId, inserted>>
\* DiscordDB.isReady is called: it calls waitUntilReady and awaits it, on a
\* promise that is resolved already when the client is ready.
IsReady(p) ==
  /\ Idle(p)
  /\ call' = [call EXCEPT ![p] =
       LET c == [IdleCall EXCEPT !.op = "isReady", !.prims = <<"waitUntilReady">>]
       IN IF ready THEN [c EXCEPT !.pc = "woken"] ELSE Await(c, "waitReady")]
  /\ UNCHANGED <<ready, guildCached, channels, msgs, nextId, inserted>>

\* ------------------------------------------------------------------ insert
\* Variant: insert sends the text String(data) gives, not the JSON text, and
\* resolves to an empty id when the send fails.
SendMessageUnencoded(p) ==
  LET c == call[p] IN
  /\ c.pc = "send"
  /\ \E ok \in BOOLEAN :
       IF ok
         THEN /\ msgs' = Append(msgs, [id |-> nextId, ch |-> c.chan,
                                       content |-> InvalidJson])
              /\ nextId' = nextId + 1
              /\ inserted' = (nextId :> c.data) @@ inserted
              /\ call' = [call EXCEPT ![p] = Settle(c, <<"id", nextId>>)]
         ELSE /\ UNCHANGED <<msgs, nextId, inserted>>
              /\ call' = [call EXCEPT ![p] =
                   Settle(Fault(c, "sendMessage"), <<"id", 0>>)]
  /\ UNCHANGED <<ready, guildCached, channels>>
\* channel.send(JSON.stringify(data)) returns: insert returns message.id.
SendMessage(p) ==
  LET c == call[p] IN
  /\ c.pc = "send"
  /\ \E ok \in BOOLEAN :
       IF ok
         THEN /\ msgs' = Append(msgs, [id |-> nextId, ch |-> c.chan,
                                       content |-> Stringify(c.data)])
              /\ nextId' = nextId + 1
              /\ inserted' = (nextId :> c.data) @@ inserted
              /\ call' = [call EXCEPT ![p] = Settle(c, <<"id", nextId>>)]
         ELSE /\ UNCHANGED <<msgs, nextId, inserted>>
              /\ call' = [call EXCEPT ![p] =
                   Settle(Fault(c, "sendMessage"), Rejected("send failed"))]
  /\ UNCHANGED <<ready, guildCached, channels>>

\* ----------------------------------------------------------------- findAll
\* Variant: the first message that does not parse ends the page's loop.
RECURSIVE PageDocumentsStopAtCorrupt(_)
PageDocumentsStopAtCorrupt(page) ==
  IF page = <<>> \/ ParseThrows(Head(page).content) THEN <<>>
  ELSE <<MakeDocument(Head(page).id, Parse(Head(page).content))>>
         \o PageDocumentsStopAtCorrupt(Tail(page))
\* The documents of the messages of one page whose content parses.
RECURSIVE PageDocuments(_)
PageDocuments(page) ==
  IF page = <<>> THEN <<>>
  ELSE LET m == Head(page) IN
       (IF ParseThrows(m.content) THEN <<>>
        ELSE <<MakeDocument(m.id, Parse(m.content))>>) \o PageDocuments(Tail(page))

\* Variant: only an empty page ends the loop.
ScanPageNoShortStop(c, page) ==
  LET c1 == [c EXCEPT !.fetches = Append(@, [before |-> c.cursor, ids |-> Ids(page)])]
  IN IF Len(page) = 0
       THEN Settle(c1, <<"docs", c1.results>>)
       ELSE Await([c1 EXCEPT !.results = @ \o PageDocuments(page),
                             !.cursor = page[Len(page)].id], "fetchPage")
\* Variant: the loop ends on `size <= 100`.
ScanPageStopOnFull(c, page) ==
  LET c1 == [c EXCEPT !.fetches = Append(@, [before |-> c.cursor, ids |-> Ids(page)])]
  IN IF Len(page) = 0
       THEN Settle(c1, <<"docs", c1.results>>)
       ELSE LET c2 == [c1 EXCEPT !.results = @ \o PageDocuments(page),
                                 !.cursor = page[Len(page)].id]
            IN IF Len(page) <= PageSize
                 THEN Settle(c2, <<"docs", c2.results>>)
                 ELSE Await(c2, "fetchPage")
\* Variant: the cursor is the first message of the page.
ScanPageCursorFirst(c, page) ==
  LET c1 == [c EXCEPT !.fetches = Append(@, [before |-> c.cursor, ids |-> Ids(page)])]
  IN IF Len(page) = 0
       THEN Settle(c1, <<"docs", c1.results>>)
       ELSE LET c2 == [c1 EXCEPT !.results = @ \o PageDocuments(page),
                                 !.cursor = page[1].id]
            IN IF Len(page) < PageSize
                 THEN Settle(c2, <<"docs", c2.results>>)
                 ELSE Await(c2, "fetchPage")
\* Variant: the loop never advances lastMessageId, so a full page is
\* fetched again and again (only the first two fetches are recorded).
ScanPageKeepsCursor(c, page) ==
  LET c1 == [c EXCEPT !.fetches = Append(@, [before |-> c.cursor, ids |-> Ids(page)])]
  IN IF Len(page) = 0
       THEN Settle(c1, <<"docs", c1.results>>)
       ELSE IF Len(page) < PageSize
              THEN Settle(c1, <<"docs", PageDocuments(page)>>)
              ELSE IF Len(c.fetches) >= 2 THEN c ELSE c1
\* One iteration of the `while (true)` loop of findAll: the page fetch
\* returns, the page is decoded, the cursor advances, the loop ends or goes on.
ScanPage(c, page) ==
  LET c1 == [c EXCEPT !.fetches = Append(@, [before |-> c.cursor, ids |-> Ids(page)])]
  IN IF Len(page) = 0
       THEN Settle(c1, <<"docs", c1.results>>)
       ELSE LET c2 == [c1 EXCEPT !.results = @ \o PageDocuments(page),
                                 !.cursor = page[Len(page)].id]
            IN IF Len(page) < PageSize
                 THEN Settle(c2, <<"docs", c2.results>>)
                 ELSE Await(c2, "fetchPage")

\* Variant: findAll catches a failing page fetch and returns what it has.
FetchMessagesCaught(p) ==
  LET c == call[p] IN
  /\ c.pc = "fetchPage"
  /\ \E ok \in BOOLEAN :
       call' = [call EXCEPT ![p] =
         IF ok THEN ScanPage(c, PlatformPage(c.chan, PageSize, c.cursor))
               ELSE Settle(Fault(c, "fetchMessages"), <<"docs", c.results>>)]
  /\ UNCHANGED <<ready, guildCached, channels, msgs, nextId, inserted>>
\* channel.messages.fetch({ limit: 100, before: lastMessageId }) returns, or
\* fails, and then findAll rejects.
FetchMessages(p) ==
  LET c == call[p] IN
  /\ c.pc = "fetchPage"
  /\ \E ok \in BOOLEAN :
       call' = [call EXCEPT ![p] =
         IF ok THEN ScanPage(c, PlatformPage(c.chan, PageSize, c.cursor))
               ELSE Settle(Fault(c, "fetchMessages"), Rejected("fetch failed"))]
  /\ UNCHANGED <<ready, guildCached, channels, msgs, nextId, inserted>>

\* ------------------------------------------- findById / update / delete
\* Variant: findById without its try/catch.
FoundByIdThrows(c) ==
  IF c.msg = NoMsg THEN Settle(c, <<"null", 0>>)
  ELSE IF ParseThrows(c.msg.content) THEN Settle(c, Rejected("SyntaxError"))
  ELSE Settle(c, <<"doc", MakeDocument(c.msg.id, Parse(c.msg.content))>>)
\* What follows `await fetchMessageById(channel, id)` in findById.
FoundById(c) ==
  IF c.msg = NoMsg THEN Settle(c, <<"null", 0>>)
  ELSE IF ParseThrows(c.msg.content) THEN Settle(c, <<"null", 0>>)
  ELSE Settle(c, <<"doc", MakeDocument(c.msg.id, Parse(c.msg.content))>>)

\* Variant: update edits without the `if (!message)` return.
UpdateFetchedNoNullCheck(c) ==
  IF c.msg # NoMsg /\ ParseThrows(c.msg.content) THEN Settle(c, <<"bool", FALSE>>)
  ELSE Await([c EXCEPT !.msg = [@ EXCEPT !.id = c.id, !.ch = c.chan],
                       !.text = Stringify(c.data)], "edit")
\* Variant: update takes a body that does not parse for an empty payload.
UpdateFetchedCorruptAsEmpty(c) ==
  IF c.msg = NoMsg THEN Settle(c, <<"bool", FALSE>>)
  ELSE Await([c EXCEPT !.text = Stringify(
                  IF ParseThrows(c.msg.content) THEN c.data
                  ELSE MergeUpdate(Parse(c.msg.content), c.data))], "edit")
\* What follows `await fetchMessageById(channel, id)` in update.
UpdateFetched(c) ==
  IF c.msg = NoMsg THEN Settle(c, <<"bool", FALSE>>)
  ELSE IF ParseThrows(c.msg.content) THEN Settle(c, <<"bool", FALSE>>)
  ELSE Await([c EXCEPT !.text = Stringify(MergeUpdate(Parse(c.msg.content), c.data))],
             "edit")

\* Variant: delete without the `if (!message)` return.
DeleteFetchedNoNullCheck(c) ==
  Await([c EXCEPT !.msg = [@ EXCEPT !.id = c.id, !.ch = c.chan]], "del")
\* What follows `await fetchMessageById(channel, id)` in delete.
DeleteFetched(c) ==
  IF c.msg = NoMsg THEN Settle(c, <<"bool", FALSE>>)
  ELSE Await(c, "del")

\* The repository method goes on with the fetched message (NoMsg for null).
AfterFetchById(c) ==
  CASE c.op = "findById" -> FoundById(c)
    [] c.op = "update" -> UpdateFetched(c)
    [] c.op = "delete" -> DeleteFetched(c)

\* Variant: fetchMessageById without its try/catch.
FetchByIdNoCatch(c, err) ==
  IF err THEN Settle(Fault(c, "fetchMessageById"), Rejected("fetch failed"))
  ELSE IF HasMsg(c.chan, c.id) THEN AfterFetchById([c EXCEPT !.msg = MsgOf(c.id)])
  ELSE AfterFetchById(c)
\* Variant: the fetch finds a message by its id in whatever channel holds it.
FetchByIdAnyChannel(c, err) ==
  IF err THEN AfterFetchById(Fault(c, "fetchMessageById"))
  ELSE IF \E i \in 1..Len(msgs) : msgs[i].id = c.id
         THEN AfterFetchById([c EXCEPT !.msg = MsgOf(c.id)])
  ELSE AfterFetchById(c)
\* fetchMessageById: channel.messages.fetch(messageId) returns the message;
\* or it throws (unknown message, or `err`: a failure of the platform on a
\* message that exists) and the catch turns that into null.
FetchById(c, err) ==
  IF err THEN AfterFetchById(Fault(c, "fetchMessageById"))
  ELSE IF HasMsg(c.chan, c.id) THEN AfterFetchById([c EXCEPT !.msg = MsgOf(c.id)])
  ELSE AfterFetchById(c)

FetchMessageById(p) ==
  LET c == call[p] IN
  /\ c.pc = "fetchOne"
  /\ \E err \in BOOLEAN :
       /\ err => HasMsg(c.chan, c.id)
       /\ call' = [call EXCEPT ![p] = FetchById(c, err)]
  /\ UNCHANGED <<ready, guildCached, channels, msgs, nextId, inserted>>

\* Variant: update without the try/catch around the edit.
EditMessageNoCatch(p) ==
  LET c == call[p] IN
  /\ c.pc = "edit"
  /\ \E ok \in BOOLEAN :
       /\ ok => HasMsg(c.msg.ch, c.msg.id)
       /\ IF ok
            THEN /\ msgs' = [i \in 1..Len(msgs) |->
                       IF msgs[i].id = c.msg.id
                         THEN [msgs[i] EXCEPT !.content = c.text] ELSE msgs[i]]
                 /\ inserted' = Without(inserted, c.msg.id)
                 /\ call' = [call EXCEPT ![p] = Settle(c, <<"bool", TRUE>>)]
            ELSE /\ UNCHANGED <<msgs, inserted>>
                 /\ call' = [call EXCEPT ![p] =
                      Settle(Fault(c, "editMessage"), Rejected("edit failed"))]
  /\ UNCHANGED <<ready, guildCached, channels, nextId>>
\* Variant: an edit of a message that is gone puts the message back with
\* the new body instead of failing.
EditMessageRecreates(p) ==
  LET c == call[p] IN
  /\ c.pc = "edit"
  /\ \E ok \in BOOLEAN :
       IF ok
         THEN /\ msgs' = IF HasMsg(c.msg.ch, c.msg.id)
                           THEN [i \in 1..Len(msgs) |->
                                  IF msgs[i].id = c.msg.id
                                    THEN [msgs[i] EXCEPT !.content = c.text]
                                    ELSE msgs[i]]
                           ELSE Append(msgs, [c.msg EXCEPT !.content = c.text])
              /\ inserted' = Without(inserted, c.msg.id)
              /\ call' = [call EXCEPT ![p] = Settle(c, <<"bool", TRUE>>)]
         ELSE /\ UNCHANGED <<msgs, inserted>>
              /\ call' = [call EXCEPT ![p] =
                   Settle(Fault(c, "editMessage"), <<"bool", FALSE>>)]
  /\ UNCHANGED <<ready, guildCached, channels, nextId>>
\* Variant: an edit whose answer is lost is applied all the same, and update
\* returns false.
EditMessageLostReply(p) ==
  LET c == call[p] IN
  /\ c.pc = "edit"
  /\ HasMsg(c.msg.ch, c.msg.id)
  /\ msgs' = [i \in 1..Len(msgs) |->
                IF msgs[i].id = c.msg.id
                  THEN [msgs[i] EXCEPT !.content = c.text] ELSE msgs[i]]
  /\ inserted' = Without(inserted, c.msg.id)
  /\ \E ok \in BOOLEAN :
       call' = [call EXCEPT ![p] =
         IF ok THEN Settle(c, <<"bool", TRUE>>)
               ELSE Settle(Fault(c, "editMessage"), <<"bool", FALSE>>)]
  /\ UNCHANGED <<ready, guildCached, channels, nextId>>
\* Variant: the platform merges the partial into the body it holds when
\* the edit arrives, as if the updates were serialized.
EditMessageMergesCurrent(p) ==
  LET c == call[p] IN
  /\ c.pc = "edit"
  /\ \E ok \in BOOLEAN :
       /\ ok => HasMsg(c.msg.ch, c.msg.id)
       /\ IF ok
            THEN /\ msgs' = [i \in 1..Len(msgs) |->
                       IF msgs[i].id = c.msg.id
                         THEN [msgs[i] EXCEPT !.content =
                                 Stringify(MergeUpdate(Parse(msgs[i].content), c.data))]
                         ELSE msgs[i]]
                 /\ inserted' = Without(inserted, c.msg.id)
                 /\ call' = [call EXCEPT ![p] = Settle(c, <<"bool", TRUE>>)]
            ELSE /\ UNCHANGED <<msgs, inserted>>
                 /\ call' = [call EXCEPT ![p] =
                      Settle(Fault(c, "editMessage"), <<"bool", FALSE>>)]
  /\ UNCHANGED <<ready, guildCached, channels, nextId>>
\* message.edit(content) returns: the body is replaced and update returns
\* true; or it throws (the message is gone, the platform failed) and update
\* returns false.
EditMessage(p) ==
  LET c == call[p] IN
  /\ c.pc = "edit"
  /\ \E ok \in BOOLEAN :
       /\ ok => HasMsg(c.msg.ch, c.msg.id)
       /\ IF ok
            THEN /\ msgs' = [i \in 1..Len(msgs) |->
                       IF msgs[i].id = c.msg.id
                         THEN [msgs[i] EXCEPT !.content = c.text] ELSE msgs[i]]
                 /\ inserted' = Without(inserted, c.msg.id)
                 /\ call' = [call EXCEPT ![p] = Settle(c, <<"bool", TRUE>>)]
            ELSE /\ UNCHANGED <<msgs, inserted>>
                 /\ call' = [call EXCEPT ![p] =
                      Settle(Fault(c, "editMessage"), <<"bool", FALSE>>)]
  /\ UNCHANGED <<ready, guildCached, channels, nextId>>

\* Variant: delete with a try/catch around the delete that returns false.
DeleteMessageCaught(p) ==
  LET c == call[p] IN
  /\ c.pc = "del"
  /\ \E ok \in BOOLEAN :
       /\ ok => HasMsg(c.msg.ch, c.msg.id)
       /\ IF ok
            THEN /\ msgs' = SelectSeq(msgs, LAMBDA m : m.id # c.msg.id)
                 /\ inserted' = Without(inserted, c.msg.id)
                 /\ call' = [call EXCEPT ![p] = Settle(c, <<"bool", TRUE>>)]
            ELSE /\ UNCHANGED <<msgs, inserted>>
                 /\ call' = [call EXCEPT ![p] =
                      Settle(Fault(c, "deleteMessage"), <<"bool", FALSE>>)]
  /\ UNCHANGED <<ready, guildCached, channels, nextId>>
\* Variant: the platform accepts the delete of a message that is gone.
DeleteMessageIdempotent(p) ==
  LET c == call[p] IN
  /\ c.pc = "del"
  /\ \E ok \in BOOLEAN :
       IF ok
         THEN /\ msgs' = SelectSeq(msgs, LAMBDA m : m.id # c.msg.id)
              /\ inserted' = Without(inserted, c.msg.id)
              /\ call' = [call EXCEPT ![p] = Settle(c, <<"bool", TRUE>>)]
         ELSE /\ UNCHANGED <<msgs, inserted>>
              /\ call' = [call EXCEPT ![p] =
                   Settle(Fault(c, "deleteMessage"), Rejected("delete failed"))]
  /\ UNCHANGED <<ready, guildCached, channels, nextId>>
\* message.delete() returns: the message is gone and delete returns true; or
\* it throws and delete rejects.
DeleteMessage(p) ==
  LET c == call[p] IN
  /\ c.pc = "del"
  /\ \E ok \in BOOLEAN :
       /\ ok => HasMsg(c.msg.ch, c.msg.id)
       /\ IF ok
            THEN /\ msgs' = SelectSeq(msgs, LAMBDA m : m.id # c.msg.id)
                 /\ inserted' = Without(inserted, c.msg.id)
                 /\ call' = [call EXCEPT ![p] = Settle(c, <<"bool", TRUE>>)]
            ELSE /\ UNCHANGED <<msgs, inserted>>
                 /\ call' = [call EXCEPT ![p] =
                      Settle(Fault(c, "deleteMessage"), Rejected("delete failed"))]
  /\ UNCHANGED <<ready, guildCached, channels, nextId>>

\* The caller has its result (the value or the rejection) and drops the call.
Return(p) ==
  /\ call[p].pc = "done"
  /\ call' = [call EXCEPT ![p] = IdleCall]
  /\ UNCHANGED <<ready, guildCached, channels, msgs, nextId, inserted>>

\* ---------------------------------------------------------------- DiscordDB
\* The DiscordDB method `method`, called for the document `key`, calls the
\* repository method `op` with the arguments given and returns its promise.
Delegate(p, method, key, op, coll, id, data) ==
  /\ Idle(p)
  /\ call' = [call EXCEPT ![p] = ResolveCollectionChannel(
       [IdleCall EXCEPT !.op = op, !.coll = coll, !.id = id, !.data = data,
                        !.since = nextId,
                        !.facade = FacadeCall(method, coll, key, data)])]
  /\ UNCHANGED <<ready, guildCached, channels, msgs, nextId, inserted>>

DbInsert(p, coll, data) ==
  Delegate(p, "insert", 0, "insert", coll, 0, data)
DbFindAll(p, coll) ==
  Delegate(p, "findAll", 0, "findAll", coll, 0, Scalar(0))
DbFindById(p, coll, id) ==
  Delegate(p, "findById", id, "findById", coll, id, Scalar(0))
\* Variant: DiscordDB.update replaces the document: it merges nothing, it
\* inserts the data as a new document.
DbUpdateAsInsert(p, coll, id, data) ==
  Delegate(p, "update", id, "insert", coll, 0, data)
DbUpdate(p, coll, id, data) ==
  Delegate(p, "update", id, "update", coll, id, data)
DbDelete(p, coll, id) ==
  Delegate(p, "delete", id, "delete", coll, id, Scalar(0))

\* Variant: the DiscordDB method catches the rejection and returns null.
DbSettleCatches(p) ==
  LET c == call[p] IN
  /\ c.pc = "done" /\ c.facade.op # "none" /\ c.facade.out = NoRet
  /\ call' = [call EXCEPT ![p].facade.out =
       IF c.ret[1] = "error" THEN <<"null", 0>> ELSE c.ret]
  /\ UNCHANGED <<ready, guildCached, channels, msgs, nextId, inserted>>
\* The promise of the repository settled: the promise of the DiscordDB
\* method, resolved with it, settles the same way.
DbSettle(p) ==
  LET c == call[p] IN
  /\ c.pc = "done" /\ c.facade.op # "none" /\ c.facade.out = NoRet
  /\ call' = [call EXCEPT ![p].facade.out = c.ret]
  /\ UNCHANGED <<ready, guildCached, channels, msgs, nextId, inserted>>

\* ------------------------------------------------------------- environment
\* Variant: the ready event runs only the listener registered first.
ClientReadyWakesOne(g) ==
  /\ ~ready
  /\ ready' = TRUE
  /\ guildCached' = g
  /\ call' = [p \in Callers |->
       IF call[p].pc = "waitReady" /\ \A q \in 1..(p - 1) : call[q].pc # "waitReady"
         THEN [call[p] EXCEPT !.pc = "woken"] ELSE call[p]]
  /\ UNCHANGED <<channels, msgs, nextId, inserted>>
\* The gateway signals ready; the configured guild is in the cache unless
\* the configured guild id is wrong. The emit runs every listener that
\* `once(Events.ClientReady, ...)` registered: each resolves its promise.
ClientReady(g) ==
  /\ ~ready
  /\ ready' = TRUE
  /\ guildCached' = g
  /\ call' = [p \in Callers |->
       IF call[p].pc = "waitReady" THEN [call[p] EXCEPT !.pc = "woken"] ELSE call[p]]
  /\ UNCHANGED <<channels, msgs, nextId, inserted>>

\* The kinds of channel a guild holds: GuildText and one that is not.
ChannelKinds == {"text", "voice"}
\* Somebody else creates a channel in the guild, of any name and kind.
ForeignChannel(name, kind) ==
  /\ Len(channels) < MaxChannels
  /\ channels' = Append(channels, [name |-> name, kind |-> kind])
  /\ UNCHANGED <<ready, guildCached, msgs, nextId, call, inserted>>

\* Another member of the guild posts a text that is no JSON in a channel.
ForeignPost(ch) ==
  /\ ch \in 1..Len(channels)
  /\ channels[ch].kind = "text"
  /\ msgs' = Append(msgs, [id |-> nextId, ch |-> ch, content |-> InvalidJson])
  /\ nextId' = nextId + 1
  /\ UNCHANGED <<ready, guildCached, channels, call, inserted>>

\* ---------------------------------------------------------- specifications
\* One caller issues CRUD calls one after the other on one collection that
\* holds few documents; other members post between the calls.
Next ==
  \/ \E g \in BOOLEAN : ClientReady(g)
  \/ \E d \in Payloads : nextId <= MaxDocs /\ Insert(1, "users", d)
  \/ \E i \in 1..MaxDocs : FindById(1, "users", i)
  \/ \E i \in 1..MaxDocs, d \in Partials : Update(1, "users", i, d)
  \/ \E i \in 1..MaxDocs : Delete(1, "users", i)
  \/ nextId <= MaxDocs /\ Idle(1) /\ ForeignPost(1)
  \/ CreateChannel(1)
  \/ SendMessage(1)
  \/ FetchMessageById(1)
  \/ EditMessage(1)
  \/ DeleteMessage(1)
  \/ Return(1)

Spec == Init /\ [][Next]_vars

\* One caller inserts into and scans one collection with a long history.
ScanNext ==
  \/ ClientReady(TRUE)
  \/ \E d \in ScanPayloads : nextId <= MaxMsgs /\ Insert(1, "users", d)
  \/ FindAll(1, "users")
  \/ nextId <= MaxMsgs /\ Idle(1) /\ ForeignPost(1)
  \/ CreateChannel(1)
  \/ SendMessage(1)
  \/ FetchMessages(1)
  \/ Return(1)

ScanSpec == Init /\ [][ScanNext]_vars

\* One caller inserts, deletes and reads back the documents of one collection;
\* it may insert again a document as a reader returned it, id included.
DelNext ==
  \/ ClientReady(TRUE)
  \/ \E d \in DelPayloads : nextId <= MaxDocs /\ Insert(1, "users", d)
  \/ \E i \in 1..MaxDocs : Delete(1, "users", i)
  \/ \E i \in 1..MaxDocs : FindById(1, "users", i)
  \/ FindAll(1, "users")
  \/ CreateChannel(1)
  \/ SendMessage(1)
  \/ FetchMessageById(1)
  \/ FetchMessages(1)
  \/ DeleteMessage(1)
  \/ Return(1)

DelSpec == Init /\ [][DelNext]_vars

\* One caller issues every CRUD call on a collection, before and after the
\* gateway is ready, in a guild where others create channels between the calls.
ChanNext ==
  \/ \E g \in BOOLEAN : ClientReady(g)
  \/ \E n \in Collections, k \in ChannelKinds : Idle(1) /\ ForeignChannel(n, k)
  \/ nextId <= MaxDocs /\ msgs = <<>> /\ Insert(1, "users", PA)
  \/ FindAll(1, "users")
  \/ \E i \in 1..MaxDocs : FindById(1, "users", i)
  \/ \E i \in 1..MaxDocs : Update(1, "users", i, PB)
  \/ \E i \in 1..MaxDocs : Delete(1, "users", i)
  \/ CreateChannel(1)
  \/ SendMessage(1)
  \/ FetchMessages(1)
  \/ FetchMessageById(1)
  \/ EditMessage(1)
  \/ DeleteMessage(1)
  \/ Return(1)

ChanSpec == Init /\ [][ChanNext]_vars

\* Several callers update the one document of a collection at the same time.
UpdNext ==
  \/ ClientReady(TRUE)
  \/ msgs = <<>> /\ Insert(1, "users", PA)
  \/ \E p \in Callers, k \in 1..Len(msgs), d \in ConcPartials :
       Update(p, "users", msgs[k].id, d)
  \/ \E p \in Callers : CreateChannel(p)
  \/ SendMessage(1)
  \/ \E p \in Callers : FetchMessageById(p)
  \/ \E p \in Callers : EditMessage(p)
  \/ \E p \in Callers : Return(p)

UpdSpec == Init /\ [][UpdNext]_vars

\* Several callers insert into a collection at the same time, from before
\* its channel exists.
RaceNext ==
  \/ ClientReady(TRUE)
  \/ \E p \in Callers : nextId <= MaxDocs /\ Insert(p, "users", PA)
  \/ \E p \in Callers : CreateChannel(p)
  \/ \E p \in Callers : SendMessage(p)
  \/ \E p \in Callers : Return(p)

RaceSpec == Init /\ [][RaceNext]_vars

\* One caller scans a collection while another inserts into it, updates and
\* deletes its documents.
ConcScanNext ==
  \/ ClientReady(TRUE)
  \/ FindAll(1, "users")
  \/ \E d \in ConcPayloads : nextId <= MaxDocs /\ Insert(2, "users", d)
  \/ \E k \in 1..Len(msgs) : Update(2, "users", msgs[k].id, PB)
  \/ \E k \in 1..Len(msgs) : Delete(2, "users", msgs[k].id)
  \/ \E p \in {1, 2} : CreateChannel(p)
  \/ FetchMessages(1)
  \/ SendMessage(2)
  \/ FetchMessageById(2)
  \/ EditMessage(2)
  \/ DeleteMessage(2)
  \/ \E p \in {1, 2} : Return(p)

ConcScanSpec == Init /\ [][ConcScanNext]_vars

\* One caller scans a collection while another keeps inserting into it.
ScanLiveNext ==
  \/ ClientReady(TRUE)
  \/ FindAll(1, "users")
  \/ nextId <= MaxMsgs /\ Insert(2, "users", PA)
  \/ \E p \in {1, 2} : CreateChannel(p)
  \/ FetchMessages(1)
  \/ SendMessage(2)
  \/ \E p \in {1, 2} : Return(p)

\* Every call of the platform the scan awaits returns in the end.
ScanLiveSpec ==
  /\ Init /\ [][ScanLiveNext]_vars
  /\ WF_vars(CreateChannel(1))
  /\ WF_vars(FetchMessages(1))

\* One caller updates documents of a collection while another deletes them
\* and reads them back.
StaleNext ==
  \/ ClientReady(TRUE)
  \/ nextId <= MaxDocs /\ Insert(1, "users", PA)
  \/ \E i \in 1..MaxDocs : Update(1, "users", i, PB)
  \/ \E i \in 1..MaxDocs : Delete(2, "users", i)
  \/ \E i \in 1..MaxDocs : FindById(2, "users", i)
  \/ \E p \in {1, 2} : CreateChannel(p)
  \/ SendMessage(1)
  \/ \E p \in {1, 2} : FetchMessageById(p)
  \/ EditMessage(1)
  \/ DeleteMessage(2)
  \/ \E p \in {1, 2} : Return(p)

StaleSpec == Init /\ [][StaleNext]_vars

\* Two callers delete the documents of one collection at the same time.
DelRaceNext ==
  \/ ClientReady(TRUE)
  \/ nextId <= MaxDocs /\ Insert(1, "users", PA)
  \/ \E p \in {1, 2}, i \in 1..MaxDocs : Delete(p, "users", i)
  \/ \E p \in {1, 2} : CreateChannel(p)
  \/ SendMessage(1)
  \/ \E p \in {1, 2} : FetchMessageById(p)
  \/ \E p \in {1, 2} : DeleteMessage(p)
  \/ \E p \in {1, 2} : Return(p)

DelRaceSpec == Init /\ [][DelRaceNext]_vars

\* Two callers work on two collections of the guild.
IsoNext ==
  \/ ClientReady(TRUE)
  \/ \E x \in Collections : nextId <= MaxDocs /\ Insert(1, x, PA)
  \/ \E x \in Collections, i \in 1..MaxDocs : FindById(2, x, i)
  \/ \E x \in Collections, i \in 1..MaxDocs : Update(2, x, i, PB)
  \/ \E x \in Collections, i \in 1..MaxDocs : Delete(2, x, i)
  \/ \E p \in {1, 2} : CreateChannel(p)
  \/ SendMessage(1)
  \/ FetchMessageById(2)
  \/ EditMessage(2)
  \/ DeleteMessage(2)
  \/ \E p \in {1, 2} : Return(p)

IsoSpec == Init /\ [][IsoNext]_vars

\* One caller issues every CRUD call through DiscordDB on one collection.
FacadeNext ==
  \/ \E g \in BOOLEAN : ClientReady(g)
  \/ \E d \in {PA, PId} : nextId <= MaxDocs /\ DbInsert(1, "users", d)
  \/ DbFindAll(1, "users")
  \/ \E i \in 1..MaxDocs : DbFindById(1, "users", i)
  \/ \E i \in 1..MaxDocs : DbUpdate(1, "users", i, PB)
  \/ \E i \in 1..MaxDocs : DbDelete(1, "users", i)
  \/ CreateChannel(1)
  \/ SendMessage(1)
  \/ FetchMessages(1)
  \/ FetchMessageById(1)
  \/ EditMessage(1)
  \/ DeleteMessage(1)
  \/ DbSettle(1)
  \/ call[1].facade.out # NoRet /\ Return(1)

FacadeSpec == Init /\ [][FacadeNext]_vars

\* Several callers wait for the connection, any number of times, before and
\* after it is established; the first of them also inserts documents.
ReadyNext ==
  \/ \E g \in BOOLEAN : ClientReady(g)
  \/ \E p \in Callers : WaitUntilReady(p)
  \/ \E p \in Callers : IsReady(p)
  \/ \E p \in Callers : ReadyResume(p)
  \/ \E d \in ScanPayloads : nextId <= MaxDocs /\ Insert(1, "users", d)
  \/ CreateChannel(1)
  \/ SendMessage(1)
  \/ \E p \in Callers : Return(p)

ReadySpec == Init /\ [][ReadyNext]_vars
\* The constructor has called client.login: the gateway signals ready in the
\* end; and a continuation whose promise is resolved is run.
ReadyFairSpec ==
  /\ ReadySpec
  /\ WF_vars(\E g \in BOOLEAN : ClientReady(g))
  /\ \A p \in Callers : WF_vars(ReadyResume(p))

\* ================================================================== claims
\* What the claims read off a call and off the store.
Done(c, op) == c.pc = "done" /\ c.op = op
IsNull(r) == r = <<"null", 0>>
IsBool(r, b) == r = <<"bool", b>>
Corrupt(m) == ParseThrows(m.content)
\* The messages of a channel as the platform delivers them: newest first.
NewestFirst(ch) == Reverse(ChannelMsgs(ch))
ValidNewestFirst(ch) == SelectSeq(NewestFirst(ch), LAMBDA m : ~Corrupt(m))
\* The ids of all pages of a scan, concatenated in fetch order.
RECURSIVE FetchedIdsUpTo(_, _)
FetchedIdsUpTo(f, n) == IF n = 0 THEN <<>> ELSE FetchedIdsUpTo(f, n - 1) \o f[n].ids
FetchedIds(c) == FetchedIdsUpTo(c.fetches, Len(c.fetches))
PageSizes(c) == [i \in 1..Len(c.fetches) |-> Len(c.fetches[i].ids)]
CountPrim(c, prim) == Cardinality({i \in 1..Len(c.prims) : c.prims[i] = prim})
\* The document carries exactly the fields of the payload, next to its id.
CarriesPayload(doc, payload) ==
  /\ DOMAIN doc = {"id"} \cup DOMAIN Props(payload)
  /\ \A k \in DOMAIN Props(payload) \ {"id"} : doc[k] = Props(payload)[k]

\* C1: findById(c, id) after id = insert(c, P), with no update or delete of
\* id in between and no failure of the platform, returns a document whose id
\* is the id insert returned and whose other fields are the fields of P.
C1_InsertFindByIdRoundTrip ==
  \A p \in Callers :
    LET c == call[p] IN
    (Done(c, "findById") /\ c.fault = "" /\ c.id \in DOMAIN inserted /\ HasMsg(c.chan, c.id))
      => /\ c.ret[1] = "doc"
         /\ c.ret[2]["id"] = Scalar(c.id)
         /\ CarriesPayload(c.ret[2], inserted[c.id])

\* C2: a findAll that returns, on a history nothing modified during the scan,
\* was delivered every message of the channel exactly once (none missed, none
\* twice) and returns exactly one document per message whose envelope parses,
\* in the order of delivery; for every history length, multiples of the page
\* size included.
C2_FindAllComplete ==
  \A p \in Callers :
    LET c == call[p] IN
    (Done(c, "findAll") /\ c.ret[1] = "docs")
      => /\ FetchedIds(c) = Ids(NewestFirst(c.chan))
         /\ Len(c.ret[2]) = Len(ValidNewestFirst(c.chan))
         /\ \A i \in 1..Len(c.ret[2]) :
              CarriesPayload(c.ret[2][i], Parse(ValidNewestFirst(c.chan)[i].content))

C2_Witness ==
  \E p \in Callers :
    LET c == call[p] IN
    /\ Done(c, "findAll") /\ c.ret[1] = "docs"
    /\ Len(ChannelMsgs(c.chan)) = 2 * PageSize
    /\ Len(c.ret[2]) >= 2
    /\ Len(c.ret[2]) < Len(ChannelMsgs(c.chan))

\* C3: the first page fetch of a findAll carries no cursor; every later fetch
\* carries the id of the last message of the page before it; a fetch follows
\* only a full page, and the scan ends with the first page that is empty or
\* shorter than the page size: pages of sizes [full, full, short] make exactly
\* three fetch calls.
C3_CursorProtocol ==
  \A p \in Callers :
    LET c == call[p]
        f == c.fetches
    IN c.op = "findAll" =>
         /\ Len(f) >= 1 => f[1].before = 0
         /\ \A i \in 2..Len(f) :
              /\ Len(f[i - 1].ids) = PageSize
              /\ f[i].before = f[i - 1].ids[PageSize]
         /\ c.pc = "fetchPage" =>
              /\ \A i \in 1..Len(f) : Len(f[i].ids) = PageSize
              /\ CountPrim(c, "fetchMessages") = Len(f) + 1
         /\ (c.pc = "done" /\ c.ret[1] = "docs") =>
              /\ Len(f) >= 1
              /\ Len(f[Len(f)].ids) < PageSize
              /\ CountPrim(c, "fetchMessages") = Len(f)

C3_Witness ==
  \E p \in Callers :
    LET c == call[p] IN
    /\ Done(c, "findAll") /\ c.ret[1] = "docs"
    /\ Len(c.fetches) = 3
    /\ CountPrim(c, "fetchMessages") = 3
    /\ PageSizes(c)[1] = PageSize /\ PageSizes(c)[2] = PageSize
    /\ PageSizes(c)[3] > 0 /\ PageSizes(c)[3] < PageSize

\* C4: a findAll that returns, on a collection of N messages nothing modified
\* during the scan, made exactly floor(N / page size) + 1 page fetches; on an
\* empty collection it returns the empty list after exactly one fetch.
C4_FetchCount ==
  \A p \in Callers :
    LET c == call[p]
        n == Len(ChannelMsgs(c.chan))
    IN (Done(c, "findAll") /\ c.ret[1] = "docs")
         => /\ CountPrim(c, "fetchMessages") = (n \div PageSize) + 1
            /\ Len(c.fetches) = (n \div PageSize) + 1
            /\ n = 0 => c.ret[2] = <<>>

C4_Witness ==
  \E p \in Callers :
    LET c == call[p] IN
    /\ Done(c, "findAll") /\ c.ret[1] = "docs"
    /\ ChannelMsgs(c.chan) = <<>>
    /\ CountPrim(c, "fetchMessages") = 1

\* C5: a message whose body does not parse is left out of the result and
\* does not fail the scan: unless the platform fails, findAll on a resolved
\* collection returns the documents of exactly the valid messages it was
\* delivered, in the order of delivery, and a corrupt message that ends a
\* full page is the cursor of the next fetch.
C5_SkipsCorrupt ==
  \A p \in Callers :
    LET c == call[p]
        f == c.fetches
        valid == SelectSeq(FetchedIds(c), LAMBDA i : ~Corrupt(MsgOf(i)))
    IN (Done(c, "findAll") /\ c.chan # 0 /\ c.fault = "")
         => /\ c.ret[1] = "docs"
            /\ Len(c.ret[2]) = Len(valid)
            /\ \A i \in 1..Len(valid) :
                 CarriesPayload(c.ret[2][i], Parse(MsgOf(valid[i]).content))
            /\ \A i \in 1..(Len(f) - 1) :
                 Corrupt(MsgOf(f[i].ids[Len(f[i].ids)]))
                   => f[i + 1].before = f[i].ids[Len(f[i].ids)]

C5_Witness ==
  \E p \in Callers :
    LET c == call[p] IN
    /\ Done(c, "findAll") /\ c.ret[1] = "docs"
    /\ Len(ChannelMsgs(c.chan)) = Len(ValidNewestFirst(c.chan)) + 1
    /\ Len(c.ret[2]) = Len(ChannelMsgs(c.chan)) - 1
    /\ Len(c.ret[2]) >= 2
    /\ \E i \in 2..Len(c.fetches) : Corrupt(MsgOf(c.fetches[i].before))

\* C6: on a resolved collection findById returns null, and does not reject,
\* both when the collection has no message with the id and when the message
\* is there but its envelope does not parse: the same value in both cases.
C6_FindByIdNull ==
  \A p \in Callers :
    LET c == call[p] IN
    (/\ Done(c, "findById") /\ c.chan # 0
     /\ (~HasMsg(c.chan, c.id) \/ Corrupt(MsgOf(c.id))))
      => IsNull(c.ret)

C6_Witness ==
  \E p \in Callers :
    LET c == call[p] IN
    /\ Done(c, "findById") /\ c.fault = ""
    /\ HasMsg(c.chan, c.id) /\ Corrupt(MsgOf(c.id))
    /\ IsNull(c.ret)

\* C7: a failing fetch of an existing message is normalized to absent: the
\* step in which the fetch fails settles the call, findById with null, update
\* with false without an edit invoked, delete with false without a delete
\* invoked, and leaves every stored message as it was.
C7_FetchFailureIsAbsent ==
  [][\A p \in Callers :
       (call[p].pc = "fetchOne" /\ call'[p].fault = "fetchMessageById")
         => /\ call'[p].pc = "done"
            /\ call'[p].op = "findById" => IsNull(call'[p].ret)
            /\ call'[p].op = "update" =>
                 IsBool(call'[p].ret, FALSE) /\ ~Invoked(call'[p], "editMessage")
            /\ call'[p].op = "delete" =>
                 IsBool(call'[p].ret, FALSE) /\ ~Invoked(call'[p], "deleteMessage")
            /\ msgs' = msgs]_vars

C7_Witness ==
  \E p \in Callers :
    LET c == call[p] IN
    /\ Done(c, "update") /\ c.fault = "fetchMessageById"
    /\ HasMsg(c.chan, c.id) /\ ~Corrupt(MsgOf(c.id))
    /\ IsBool(c.ret, FALSE)

\* C8: when update succeeds on a document whose payload it read as E, the
\* stored payload is the record with partial's value for every top-level key
\* of partial and E's value for every other top-level key of E; a nested
\* object is replaced as a whole.
C8_ShallowMerge ==
  \A p \in Callers :
    LET c == call[p] IN
    (Done(c, "update") /\ IsBool(c.ret, TRUE))
      => /\ HasMsg(c.chan, c.id)
         /\ ~Corrupt(MsgOf(c.id))
         /\ Parse(MsgOf(c.id).content)[1] = "obj"
         /\ LET E == Props(Parse(c.msg.content))
                P == Props(c.data)
                S == Props(Parse(MsgOf(c.id).content))
            IN /\ DOMAIN S = DOMAIN E \cup DOMAIN P
               /\ \A k \in DOMAIN P : S[k] = P[k]
               /\ \A k \in DOMAIN E \ DOMAIN P : S[k] = E[k]

C8_Witness ==
  \E p \in Callers :
    LET c == call[p] IN
    /\ Done(c, "update") /\ IsBool(c.ret, TRUE)
    /\ c.msg.content = Stringify(PU)
    /\ c.data = PUx
    /\ MsgOf(c.id).content = Stringify(PUx)

\* C9: update on an id that has no message in the resolved collection returns
\* false and never invokes the edit primitive.
C9_UpdateAbsent ==
  \A p \in Callers :
    LET c == call[p] IN
    (Done(c, "update") /\ c.chan # 0 /\ ~HasMsg(c.chan, c.id))
      => IsBool(c.ret, FALSE) /\ ~Invoked(c, "editMessage")

C9_Witness ==
  \E p \in Callers :
    LET c == call[p] IN
    /\ Done(c, "update") /\ c.chan # 0 /\ ~HasMsg(c.chan, c.id)
    /\ Invoked(c, "fetchMessageById")
    /\ IsBool(c.ret, FALSE)

\* C10: update on a document whose stored envelope does not parse returns
\* false, does not invoke the edit primitive and leaves the stored body as
\* it was.
C10_UpdateCorrupt ==
  \A p \in Callers :
    LET c == call[p] IN
    (Done(c, "update") /\ c.msg # NoMsg /\ Corrupt(c.msg))
      => /\ IsBool(c.ret, FALSE)
         /\ ~Invoked(c, "editMessage")
         /\ HasMsg(c.chan, c.id)
         /\ MsgOf(c.id).content = c.msg.content

C10_Witness ==
  \E p \in Callers :
    LET c == call[p] IN
    /\ Done(c, "update") /\ c.fault = ""
    /\ HasMsg(c.chan, c.id) /\ Corrupt(MsgOf(c.id))
    /\ IsBool(c.ret, FALSE)

\* C11: a failure of the edit call of update is not propagated: an update
\* whose edit primitive rejected has resolved to false, not rejected, and
\* the stored body is the one update read.
C11_EditFailureIsFalse ==
  \A p \in Callers :
    LET c == call[p] IN
    (Done(c, "update") /\ c.fault = "editMessage")
      => /\ IsBool(c.ret, FALSE)
         /\ CountPrim(c, "editMessage") = 1
         /\ HasMsg(c.chan, c.id) => MsgOf(c.id).content = c.msg.content

C11_Witness ==
  \E p \in Callers :
    LET c == call[p] IN
    /\ Done(c, "update") /\ c.fault = "editMessage"
    /\ HasMsg(c.chan, c.id) /\ ~Corrupt(MsgOf(c.id))
    /\ c.text # c.msg.content
    /\ IsBool(c.ret, FALSE)

\* C12: delete on an id that has no message in the resolved collection
\* returns false without invoking the delete primitive; delete on an id whose
\* message it fetched invokes the delete primitive exactly once, on that
\* message, which is in the collection when the primitive is invoked, and,
\* unless that call fails, returns true with the message gone.
C12_DeleteContract ==
  \A p \in Callers :
    LET c == call[p] IN
    /\ (Done(c, "delete") /\ c.chan # 0 /\ c.msg = NoMsg)
         => IsBool(c.ret, FALSE) /\ ~Invoked(c, "deleteMessage")
    /\ (c.op = "delete" /\ c.pc = "fetchOne") => ~Invoked(c, "deleteMessage")
    /\ (c.op = "delete" /\ c.pc = "del")
         => /\ CountPrim(c, "deleteMessage") = 1
            /\ HasMsg(c.chan, c.id)
            /\ c.msg = MsgOf(c.id)
    /\ (Done(c, "delete") /\ c.msg # NoMsg)
         => /\ CountPrim(c, "deleteMessage") = 1
            /\ c.msg.id = c.id /\ c.msg.ch = c.chan
            /\ c.fault = "" => IsBool(c.ret, TRUE) /\ ~HasMsg(c.chan, c.id)

C12_Witness ==
  \E p \in Callers :
    LET c == call[p] IN
    /\ Done(c, "delete") /\ c.fault = ""
    /\ c.msg # NoMsg /\ c.msg.id = c.id
    /\ CountPrim(c, "deleteMessage") = 1
    /\ IsBool(c.ret, TRUE)
    /\ msgs # <<>>

C14_NoIdOnWire ==
  \A i \in 1..Len(msgs) :
    ~Corrupt(msgs[i]) => "id" \notin DOMAIN Props(Parse(msgs[i].content))

\* C15: every document findById or findAll returns has as its id the id of
\* the message it was decoded from, whatever the envelope holds.
C15_DocumentIdIsMessageId ==
  \A p \in Callers :
    LET c == call[p]
        valid == SelectSeq(FetchedIds(c), LAMBDA i : ~Corrupt(MsgOf(i)))
    IN /\ (Done(c, "findById") /\ c.ret[1] = "doc")
            => c.ret[2]["id"] = Scalar(c.msg.id)
       /\ (Done(c, "findAll") /\ c.ret[1] = "docs")
            => \A i \in 1..Len(c.ret[2]) : c.ret[2][i]["id"] = Scalar(valid[i])

\* C16: update changes nothing but the payload of its document. The step in
\* which update's edit succeeds keeps every channel and every message under
\* its id and in its channel, keeps the body of every other message, and
\* leaves the merged payload as the body of the document; and a findById that
\* follows a successful update of the document returns the id the document
\* was updated under, with the stored (merged) payload.
C16_UpdateFrame ==
  [][\A p \in Callers :
       LET c == call[p]
           d == call'[p]
       IN /\ (c.pc = "edit" /\ IsBool(d.ret, TRUE))
               => /\ channels' = channels
                  /\ Len(msgs') = Len(msgs)
                  /\ \A i \in 1..Len(msgs) :
                       /\ msgs'[i].id = msgs[i].id
                       /\ msgs'[i].ch = msgs[i].ch
                       /\ msgs[i].id # c.id => msgs'[i].content = msgs[i].content
                       /\ msgs[i].id = c.id =>
                            msgs'[i].content =
                              Stringify(MergeUpdate(Parse(c.msg.content), c.data))
                  /\ \E i \in 1..Len(msgs) : msgs[i].id = c.id /\ msgs[i].ch = c.chan
          /\ (/\ c.pc = "fetchOne" /\ c.op = "findById" /\ d.fault = ""
              /\ HasMsg(c.chan, c.id) /\ ~Corrupt(MsgOf(c.id))
              /\ c.id \notin DOMAIN inserted)
               => /\ d.ret[1] = "doc"
                  /\ d.ret[2]["id"] = Scalar(c.id)
                  /\ CarriesPayload(d.ret[2], Parse(MsgOf(c.id).content))]_vars

\* The ids of the messages that are gone: the platform never hands out an id
\* twice, so an id below nextId that no message has was deleted.
Deleted == {i \in 1..(nextId - 1) : \A k \in 1..Len(msgs) : msgs[k].id # i}

\* C17: delete is effective. A message goes away only in the step in which a
\* delete of its id returns true, and it never comes back; from then on every
\* findById of that id on the collection returns null and no list findAll
\* returns holds a document with that id.
C17_DeleteEffective ==
  [][/\ \A i \in Deleted' \ Deleted :
          \E p \in Callers :
            /\ call[p].pc = "del" /\ call[p].id = i
            /\ Done(call'[p], "delete") /\ IsBool(call'[p].ret, TRUE)
     /\ Deleted \subseteq Deleted'
     /\ \A p \in Callers :
          LET d == call'[p] IN
          /\ (Done(d, "findById") /\ d.chan # 0 /\ d.id \in Deleted')
               => IsNull(d.ret)
          /\ (Done(d, "findAll") /\ d.ret[1] = "docs")
               => \A k \in 1..Len(d.ret[2]), i \in Deleted' :
                    d.ret[2][k]["id"] # Scalar(i)]_vars

\* A caller is idle before the step and has called a method in it.
Calls(p) == call[p].pc = "idle" /\ call'[p].pc # "idle"
CrudOps == {"insert", "findAll", "findById", "update", "delete"}

\* C18: a CRUD method called while the guild is not in the cache, as before
\* the gateway is ready, rejects at once with 'Guild not found in cache': no
\* channel is created, no primitive is invoked, no message changes, and the
\* call stays settled.
C18_ScopeMissingIsFatal ==
  [][\A p \in Callers :
       /\ (Calls(p) /\ ~guildCached)
            => /\ call'[p].op \in CrudOps
               /\ call'[p].pc = "done"
               /\ call'[p].ret = Rejected("Guild not found in cache")
               /\ call'[p].prims = <<>>
               /\ channels' = channels /\ msgs' = msgs
       /\ (call[p].pc = "done" /\ call[p].ret = Rejected("Guild not found in cache"))
            => call'[p] \in {call[p], IdleCall}]_vars

C18_Witness ==
  \E p \in Callers :
    LET c == call[p] IN
    /\ Done(c, "findAll") /\ ~ready
    /\ c.ret = Rejected("Guild not found in cache")
    /\ c.prims = <<>> /\ channels = <<>>

\* C19: with the guild in the cache, a call finds its channel without
\* creating anything exactly when the cache holds a text channel with the
\* collection's name, and gets such a channel; otherwise it invokes the
\* creation once, which, unless the platform refuses it, adds exactly one
\* text channel with that name, the channel the call goes on with. A channel
\* of another kind with the name does not count. No other step of a call
\* touches the channels.
C19_ResolveCollection ==
  [][\A p \in Callers :
       LET c == call[p]
           d == call'[p]
           T == {i \in 1..Len(channels) :
                   channels[i].kind = "text" /\ channels[i].name = d.coll}
       IN /\ (Calls(p) /\ guildCached)
               => /\ channels' = channels
                  /\ T # {} => /\ d.chan \in T
                               /\ d.prims = <<PrimOf(AfterResolve(d.op))>>
                  /\ T = {} => /\ d.chan = 0
                               /\ d.pc = "create"
                               /\ d.prims = <<"createChannel">>
          /\ (c.pc = "create" /\ d.fault = "")
               => /\ channels' = Append(channels, [name |-> c.coll, kind |-> "text"])
                  /\ d.chan = Len(channels')
                  /\ CountPrim(d, "createChannel") = 1
          /\ (c.pc = "create" /\ d.fault # "")
               => channels' = channels /\ d.ret[1] = "error"
          /\ c.pc \notin {"idle", "create"} => channels' = channels]_vars

C19_Witness ==
  \E p \in Callers :
    LET c == call[p] IN
    /\ c.pc = "send" /\ c.chan = 2
    /\ channels = <<[name |-> "users", kind |-> "voice"],
                    [name |-> "users", kind |-> "text"]>>
    /\ c.prims = <<"createChannel", "sendMessage">>

C21_ReadinessGate ==
  /\ [](\A p \in Callers :
          /\ call[p].pc = "waitReady" => ~ready
          /\ (call[p].op = "waitUntilReady" /\ call[p].pc \in {"woken", "done"}) => ready)
  /\ [][\A p \in Callers :
          (call[p].pc = "waitReady" /\ call'[p] # call[p])
            => ~ready /\ ready' /\ call'[p].pc = "woken"]_vars
  /\ \A p \in Callers :
       (call[p].op = "waitUntilReady" /\ call[p].pc = "waitReady")
         ~> (Done(call[p], "waitUntilReady") /\ call[p].ret = Void)

C21_Witness ==
  /\ ready
  /\ \A p \in Callers :
       /\ Done(call[p], "waitUntilReady") /\ call[p].ret = Void
       /\ call[p].prims = <<"once">>

\* C22: DiscordDB.isReady performs its own waitUntilReady on every call and
\* does not resolve in the step of the call; it resolves only when the
\* gateway has signalled ready, to the readiness flag read in the step that
\* resolves it, which is true.
C22_FacadeIsReady ==
  /\ [](\A p \in Callers :
          LET c == call[p] IN
          /\ c.op = "isReady" => CountPrim(c, "waitUntilReady") = 1
          /\ (c.op = "isReady" /\ c.pc \in {"woken", "done"}) => ready
          /\ Done(c, "isReady") => IsBool(c.ret, TRUE))
  /\ [][\A p \in Callers :
          /\ (Calls(p) /\ call'[p].op = "isReady") => call'[p].pc # "done"
          /\ (call[p].op = "isReady" /\ call[p].pc # "done" /\ call'[p].pc = "done")
               => call'[p].ret = <<"bool", ready'>>]_vars

C22_Witness ==
  \E p \in Callers :
    LET c == call[p] IN
    /\ Done(c, "isReady") /\ IsBool(c.ret, TRUE)
    /\ c.prims = <<"waitUntilReady", "once">>

\* A call as the repository sees it: without the DiscordDB method behind it.
RepositoryCall(c) == [c EXCEPT !.facade = NoFacade]

\* C23: DiscordDB is a pass-through. The step of a DiscordDB CRUD call is the
\* step of the repository method of the same name with the same arguments;
\* the call stays that one repository call with those arguments until the
\* caller has its outcome; and the outcome of the DiscordDB call is the
\* outcome of the repository call, value or rejection.
C23_FacadePassThrough ==
  /\ [](\A p \in Callers :
          LET c == call[p]
              f == c.facade
          IN f.op # "none"
               => /\ f.op \in CrudOps
                  /\ c.op = f.op /\ c.coll = f.coll /\ c.id = f.id /\ c.data = f.data
                  /\ f.out # NoRet => (c.pc = "done" /\ f.out = c.ret))
  /\ [][\A p \in Callers :
          LET f == call'[p].facade IN
          /\ (Calls(p) /\ f.op # "none")
               => RepositoryCall(call'[p]) = ResolveCollectionChannel(
                    [IdleCall EXCEPT !.op = f.op, !.coll = f.coll,
                                     !.id = f.id, !.data = f.data,
                                     !.since = nextId])
          /\ (call[p].facade.op # "none" /\ call'[p].pc # "idle")
               => /\ call'[p].op = call[p].op
                  /\ [f EXCEPT !.out = NoRet] = [call[p].facade EXCEPT !.out = NoRet]
          /\ (call[p].facade.op # "none" /\ call'[p].pc = "idle")
               => call[p].facade.out = call[p].ret]_vars

C23_Witness ==
  \E p \in Callers :
    LET c == call[p] IN
    /\ Done(c, "delete") /\ c.facade.op = "delete"
    /\ c.facade.out = Rejected("delete failed")
    /\ HasMsg(c.chan, c.id)

\* C24: last write wins. Whatever the document holds when an edit of update
\* is applied, the stored body becomes the envelope that update built, its
\* partial merged over the payload that very call read, and the call returns
\* true: nothing ties the edit to the body it was computed from. The body
\* after two concurrent updates is therefore the envelope of the edit
\* applied last.
C24_LastWriteWins ==
  [][\A p \in Callers :
       LET c == call[p]
           d == call'[p]
       IN (c.pc = "edit" /\ d.pc = "done" /\ d.fault = "")
            => /\ IsBool(d.ret, TRUE)
               /\ c.text = Stringify(MergeUpdate(Parse(c.msg.content), c.data))
               /\ \A i \in 1..Len(msgs) :
                    msgs[i].id = c.id => msgs'[i].content = c.text
               /\ \E i \in 1..Len(msgs) : msgs[i].id = c.id]_vars

\* Both updates read {a: 1, b: 2}; both edits were applied and both calls
\* returned true; the body is the envelope of one of them and the change of
\* the other is lost.
C24_Witness ==
  \E p, q \in Callers :
    LET c == call[p]
        e == call[q]
    IN /\ p # q /\ c.id = e.id
       /\ Done(c, "update") /\ IsBool(c.ret, TRUE)
       /\ Done(e, "update") /\ IsBool(e.ret, TRUE)
       /\ c.msg.content = Stringify(PA) /\ e.msg.content = Stringify(PA)
       /\ c.data = PB /\ e.data = PC
       /\ MsgOf(c.id).content = Stringify(MergeUpdate(PA, PC))

\* The kind of value each method resolves to.
DefiniteResult(op, r) ==
  CASE op = "insert" -> r[1] = "id"
    [] op = "findAll" -> r[1] = "docs"
    [] op = "findById" -> r[1] \in {"doc", "null"}
    [] OTHER -> r[1] = "bool"
ScopeMissing(c) == c.ret = Rejected("Guild not found in cache") /\ c.prims = <<>>

\* C25: every CRUD call that has settled resolved to a definite result or
\* rejected, and it rejected only because the guild was missing or because a
\* mutation call (send, edit, delete) failed.
C25_OnlyScopeAndMutationReject ==
  \A p \in Callers :
    LET c == call[p] IN
    (c.pc = "done" /\ c.op \in CrudOps)
      => /\ c.ret[1] = "error" \/ DefiniteResult(c.op, c.ret)
         /\ c.ret[1] = "error"
              => \/ ScopeMissing(c)
                 \/ c.fault \in {"sendMessage", "editMessage", "deleteMessage"}

\* C25, amended: every CRUD call that has settled resolved to a definite
\* result of its method or rejected; it rejected exactly when the guild was
\* missing or when the channel creation, the send of insert, a page fetch of
\* findAll or the delete call of delete failed; a failing fetch by id or
\* edit never rejects. A failure ends the call, and no primitive other than
\* the page fetch of the scan is invoked twice by one call.
C25_ErrorSurface ==
  \A p \in Callers :
    LET c == call[p] IN
    c.op \in CrudOps
      => /\ c.pc = "done"
              => /\ c.ret[1] = "error" \/ DefiniteResult(c.op, c.ret)
                 /\ c.ret[1] = "error"
                      <=> \/ ScopeMissing(c)
                          \/ c.fault \in {"createChannel", "sendMessage",
                                           "fetchMessages", "deleteMessage"}
         /\ c.fault # "" => c.pc = "done"
         /\ \A prim \in {"createChannel", "sendMessage", "fetchMessageById",
                           "editMessage", "deleteMessage"} : CountPrim(c, prim) <= 1
         /\ CountPrim(c, "fetchMessages") =
              Len(c.fetches) + (IF c.pc = "fetchPage" \/ c.fault = "fetchMessages"
                                  THEN 1 ELSE 0)

C25_Witness ==
  \E p \in Callers :
    LET c == call[p] IN
    /\ Done(c, "findAll") /\ c.fault = "fetchMessages"
    /\ c.ret[1] = "error"
    /\ c.prims = <<"fetchMessages">>
    /\ ChannelMsgs(c.chan) # <<>>

\* C26: the step in which the send of insert succeeds adds exactly one
\* message, in the channel of text kind that has the collection's name, with
\* the JSON text of the payload as its body and an id no message had, and
\* insert returns that id; the step in which the send fails adds nothing and
\* insert rejects with the failure, returning no id. No other step of an
\* insert touches the messages, and an insert invokes the send at most once.
C26_InsertSendsOne ==
  [][\A p \in Callers :
       LET c == call[p]
           d == call'[p]
       IN c.op = "insert" =>
            /\ (c.pc = "send" /\ d.pc = "done" /\ d.fault = "")
                 => /\ Len(msgs') = Len(msgs) + 1
                    /\ SubSeq(msgs', 1, Len(msgs)) = msgs
                    /\ LET m == msgs'[Len(msgs')]
                       IN /\ m.ch = c.chan
                          /\ channels[c.chan] = [name |-> c.coll, kind |-> "text"]
                          /\ m.content = Stringify(c.data)
                          /\ ~ParseThrows(m.content) /\ Parse(m.content) = c.data
                          /\ \A i \in 1..Len(msgs) : msgs[i].id # m.id
                          /\ d.ret = <<"id", m.id>>
                    /\ CountPrim(d, "sendMessage") = 1
            /\ (c.pc = "send" /\ d.fault = "sendMessage")
                 => /\ msgs' = msgs
                    /\ d.pc = "done"
                    /\ d.ret = Rejected("send failed")
            /\ (c.pc # "send" /\ d # c) => msgs' = msgs]_vars

C26_Witness ==
  \E p \in Callers :
    LET c == call[p] IN
    /\ Done(c, "insert") /\ c.fault = "sendMessage"
    /\ c.ret = Rejected("send failed")
    /\ Len(msgs) = 1 /\ msgs[1].content = Stringify(PU)

\* C27: in every interleaving at most one text channel has a given
\* collection name, and all documents of one collection name are messages of
\* a single channel.
C27_OneChannelPerCollection ==
  /\ \A n \in Collections : Cardinality(TextChannelsNamed(n)) <= 1
  /\ \A i, j \in 1..Len(msgs) :
       channels[msgs[i].ch].name = channels[msgs[j].ch].name => msgs[i].ch = msgs[j].ch

\* C28: whatever inserts, updates and deletes run next to a scan, the list
\* findAll returns holds no document id twice, and every message of the
\* collection with a valid envelope that was sent before the scan was called
\* and is still stored was delivered to the scan and has a document with its
\* id in the list.
C28_ScanUnderConcurrency ==
  \A p \in Callers :
    LET c == call[p] IN
    (Done(c, "findAll") /\ c.ret[1] = "docs")
      => /\ \A i, j \in 1..Len(c.ret[2]) :
              i # j => c.ret[2][i]["id"] # c.ret[2][j]["id"]
         /\ \A k \in 1..Len(msgs) :
              (/\ channels[msgs[k].ch] = [name |-> c.coll, kind |-> "text"]
               /\ msgs[k].id < c.since /\ ~Corrupt(msgs[k]))
                => /\ \E i \in 1..Len(FetchedIds(c)) : FetchedIds(c)[i] = msgs[k].id
                   /\ \E i \in 1..Len(c.ret[2]) : c.ret[2][i]["id"] = Scalar(msgs[k].id)

\* C29: findAll terminates. The cursor of every page fetch after the first
\* is older than every message delivered before and than the cursor before
\* it, and every message of a page is older than the page's cursor, so a
\* message sent during the scan never enters a later page; and provided the
\* calls the scan awaits return, every findAll returns (or rejects) in the
\* end, whatever is inserted meanwhile.
C29_FindAllTerminates ==
  /\ [](\A p \in Callers :
          LET f == call[p].fetches IN
          \A i \in 1..Len(f) :
            /\ \A k \in 1..Len(f[i].ids) :
                 f[i].before # 0 => f[i].ids[k] < f[i].before
            /\ i > 1 =>
                 /\ f[i].before # 0
                 /\ f[i - 1].before # 0 => f[i].before < f[i - 1].before
                 /\ \A k \in 1..Len(f[i - 1].ids) :
                      f[i].before <= f[i - 1].ids[k])
  /\ \A p \in Callers :
       (call[p].op = "findAll") ~> Done(call[p], "findAll")

C29_Witness ==
  \E p \in Callers :
    LET c == call[p] IN
    /\ Done(c, "findAll") /\ c.ret[1] = "docs"
    /\ Len(c.fetches) = 3
    /\ \E k \in 1..Len(msgs) : msgs[k].ch = c.chan /\ msgs[k].id > c.fetches[1].ids[1]

\* C30: update cannot resurrect a deleted document. A message that is gone
\* never comes back, and the id of a delete that returned true is gone; an
\* update that fetched the message before the deletion and issues its edit
\* after it changes no message and returns false; a findById that fetches
\* the id after the deletion returns null.
C30_NoResurrection ==
  [][/\ Deleted \subseteq Deleted'
     /\ \A p \in Callers :
          LET c == call[p]
              d == call'[p]
          IN /\ (Done(d, "delete") /\ IsBool(d.ret, TRUE)) => d.id \in Deleted'
             /\ (c.op = "update" /\ c.pc = "edit" /\ c.msg.id \in Deleted /\ d # c)
                  => /\ Done(d, "update") /\ IsBool(d.ret, FALSE)
                     /\ msgs' = msgs
             /\ (c.op = "findById" /\ c.pc = "fetchOne" /\ c.id \in Deleted /\ d # c)
                  => Done(d, "findById") /\ IsNull(d.ret)]_vars

C30_Witness ==
  \E p, q \in Callers :
    /\ Done(call[q], "delete") /\ IsBool(call[q].ret, TRUE)
    /\ Done(call[p], "update") /\ IsBool(call[p].ret, FALSE)
    /\ call[p].id = call[q].id
    /\ call[p].msg # NoMsg /\ call[p].fault = "editMessage"
    /\ call[p].id \in Deleted

\* C31: concurrent deletes of one document. A message that is gone stays
\* gone; a delete returns true only in the step in which its message goes
\* away, so of the deletes of one document at most one returns true and the
\* delete primitive takes effect at most once; a delete that fetched the
\* message and issues its delete after the message went away rejects, and
\* one that fetches after that returns false; neither changes a message.
C31_DeleteOnce ==
  [][/\ Deleted \subseteq Deleted'
     /\ \A p \in Callers :
          LET c == call[p]
              d == call'[p]
          IN /\ (c.op = "delete" /\ d # c /\ Done(d, "delete") /\ IsBool(d.ret, TRUE))
                  => /\ c.pc = "del"
                     /\ c.id \notin Deleted /\ c.id \in Deleted'
                     /\ Deleted' = Deleted \cup {c.id}
                     /\ \A q \in Callers \ {p} : call'[q] = call[q]
             /\ (c.op = "delete" /\ c.pc = "del" /\ c.id \in Deleted /\ d # c)
                  => /\ Done(d, "delete") /\ d.ret = Rejected("delete failed")
                     /\ msgs' = msgs
             /\ (c.op = "delete" /\ c.pc = "fetchOne" /\ c.id \in Deleted /\ d # c)
                  => /\ Done(d, "delete") /\ IsBool(d.ret, FALSE)
                     /\ msgs' = msgs]_vars

C31_Witness ==
  \E p, q \in Callers :
    /\ p # q /\ call[p].id = call[q].id
    /\ Done(call[p], "delete") /\ IsBool(call[p].ret, TRUE)
    /\ Done(call[q], "delete") /\ call[q].ret = Rejected("delete failed")
    /\ call[q].msg # NoMsg
    /\ call[q].id \in Deleted

\* C32: a failed update changes nothing. The only step of an update that
\* changes a message is the one in which it returns true; an update returns
\* false because its fetch gave no message, because the body it fetched does
\* not parse, or because its edit failed, and in each case every message
\* holds after the call what it held before.
C32_FailedUpdateChangesNothing ==
  [][\A p \in Callers :
       LET c == call[p]
           d == call'[p]
       IN /\ (d.op = "update" /\ d # c /\ ~(Done(d, "update") /\ IsBool(d.ret, TRUE)))
               => msgs' = msgs
          /\ (c.op = "update" /\ c.pc # "done"
                /\ Done(d, "update") /\ IsBool(d.ret, FALSE))
               => /\ msgs' = msgs
                  /\ \/ c.pc = "fetchOne" /\ d.msg = NoMsg
                     \/ c.pc = "fetchOne" /\ d.msg # NoMsg /\ Corrupt(d.msg)
                     \/ c.pc = "edit" /\ d.fault = "editMessage"]_vars

C32_Witness ==
  \E p \in Callers :
    LET c == call[p] IN
    /\ Done(c, "update") /\ IsBool(c.ret, FALSE) /\ c.fault = "editMessage"
    /\ Len(msgs) = 2
    /\ \A k \in 1..Len(msgs) :
         /\ msgs[k].id \in DOMAIN inserted
         /\ msgs[k].content = Stringify(inserted[msgs[k].id])
    /\ c.text # c.msg.content

\* The messages of the channels that carry the name of a collection.
CollectionMsgs(x) == SelectSeq(msgs, LAMBDA m : channels[m.ch].name = x)
LivesIn(i, x) == \E k \in 1..Len(msgs) : msgs[k].id = i /\ channels[msgs[k].ch].name = x

\* C33: collections are isolated. A step of a call on collection c leaves the
\* messages of every other collection as they are and adds no channel of
\* another name; findById, update and delete on c with the id of a document
\* that lives in another collection and not in c return null, false and
\* false, and change no message.
C33_CollectionsIsolated ==
  [][\A p \in Callers :
       LET c == call[p]
           d == call'[p]
       IN /\ (d # c /\ d.op \in CrudOps)
               => /\ \A x \in Collections \ {d.coll} :
                       CollectionMsgs(x)' = CollectionMsgs(x)
                  /\ \A k \in 1..Len(channels') :
                       k > Len(channels) => channels'[k].name = d.coll
          /\ (c.pc = "fetchOne" /\ d # c /\ ~LivesIn(c.id, c.coll)
                /\ \E x \in Collections : LivesIn(c.id, x))
               => /\ Done(d, c.op)
                  /\ c.op = "findById" => IsNull(d.ret)
                  /\ c.op \in {"update", "delete"} => IsBool(d.ret, FALSE)
                  /\ msgs' = msgs]_vars

C33_Witness ==
  \E p \in Callers :
    LET c == call[p] IN
    /\ Done(c, "delete") /\ IsBool(c.ret, FALSE) /\ c.fault = ""
    /\ c.coll = "logs" /\ c.chan # 0
    /\ LivesIn(c.id, "users") /\ ~LivesIn(c.id, "logs")
    /\ \E j \in 1..MaxDocs : j # c.id /\ LivesIn(j, "logs")

ReadOps == {"findAll", "findById", "update", "delete"}
\* What a method other than insert returns on a collection that holds nothing.
EmptyResult(op) ==
  CASE op = "findAll" -> <<"docs", <<>>>>
    [] op = "findById" -> <<"null", 0>>
    [] OTHER -> <<"bool", FALSE>>

\* C34: lazy creation also happens on reads. findAll, findById, update and
\* delete called on a collection that has no text channel invoke the channel
\* creation; once the channel is created they fetch from it and return the
\* empty list, null, false and false; the creation adds one text channel of
\* the collection's name, and no step of such a call sends, edits or deletes
\* a message.
C34_LazyCreationOnReads ==
  [][\A p \in Callers :
       LET c == call[p]
           d == call'[p]
       IN /\ (Calls(p) /\ guildCached /\ d.op \in ReadOps /\ FindChannel(d.coll) = 0)
               => /\ d.pc = "create" /\ d.prims = <<"createChannel">>
                  /\ channels' = channels /\ msgs' = msgs
          /\ (c.op \in ReadOps /\ c.pc = "create" /\ d # c /\ d.fault = "")
               => /\ channels' = Append(channels, [name |-> c.coll, kind |-> "text"])
                  /\ d.chan = Len(channels')
                  /\ d.pc = AfterResolve(c.op)
                  /\ d.prims = <<"createChannel", PrimOf(AfterResolve(c.op))>>
                  /\ msgs' = msgs
          /\ (c.op \in ReadOps /\ Invoked(c, "createChannel")
                /\ c.pc \in {"fetchPage", "fetchOne"} /\ d # c /\ d.fault = "")
               => /\ Done(d, c.op) /\ d.ret = EmptyResult(c.op)
                  /\ d.prims = c.prims
                  /\ channels' = channels /\ msgs' = msgs]_vars

C34_Witness ==
  \E p \in Callers :
    LET c == call[p] IN
    /\ Done(c, "update") /\ c.ret = EmptyResult("update") /\ c.fault = ""
    /\ c.prims = <<"createChannel", "fetchMessageById">>
    /\ channels = <<[name |-> "users", kind |-> "voice"],
                    [name |-> "users", kind |-> "text"]>>
    /\ c.chan = 2 /\ msgs = <<>>

====
